---- MODULE Spec2Model ----
(***************************************************************************)
(* Model of Detection.py: the two-stage duplicate scan.                    *)
(*   find_duplicates_by_size  walks the tree and groups paths by size      *)
(*   hash_file                streams a file into an MD5 hasher            *)
(*   find_duplicates_by_hash  regroups the size candidates by digest       *)
(*   __main__                 runs the two stages and reports              *)
(* A path is named by its position in the os.walk visit: path p is the     *)
(* p-th file the walk yields.  A file's content is a sequence of bytes.    *)
(* A dict is the sequence of its items in insertion order.                 *)
(***************************************************************************)
EXTENDS Integers, Sequences, FiniteSets, TLC

\* ------------------------------------------------------------------ bounds
MaxFiles == 4

\* the byte strings a file of the scanned tree may hold
Contents == {<<>>, <<0>>, <<1>>}

\* what directory_to_scan names: a directory, nothing, a regular file, or a
\* directory the process may not list
RootKinds == {"dir", "missing", "file", "noaccess"}

\* default of hash_file's block_size parameter
block_size == 65536

\* the exceptions a failing os.path.getsize / open / read raises
Raised == {"FileNotFoundError", "PermissionError", "OSError"}

VARIABLES
  rootKind,    \* what the scanned path is
  tree,        \* tree[p]: content of the p-th file below the root
  md5,         \* the digest function, on the byte strings hashed so far
  pc,          \* "walk", "main", "hash", "report", "done", "crashed"
  walk_i,      \* files the walk loop has visited
  size_dict,   \* find_duplicates_by_size: size -> paths
  hash_i,      \* candidates the hash loop has visited
  hash_dict,   \* find_duplicates_by_hash: digest -> paths
  hashed,      \* the paths hash_file was called on, in call order
  stdout,      \* the diagnostics printed by the except clauses
  stat_faults, \* the paths whose os.path.getsize raised
  read_faults, \* the paths whose open or read raised
  report       \* what __main__ printed at the end

vars == <<rootKind, tree, md5, pc, walk_i, size_dict, hash_i, hash_dict,
          hashed, stdout, stat_faults, read_faults, report>>

\* ------------------------------------------------------------ dict helpers
Min(a, b) == IF a < b THEN a ELSE b

Range(f) == {f[x] : x \in DOMAIN f}

EmptyDict == <<>>

Keys(d) == {d[i].key : i \in DOMAIN d}

\* defaultdict(list): d[k].append(v)
DictAppend(d, k, v) ==
  IF k \in Keys(d)
  THEN [i \in DOMAIN d |->
          IF d[i].key = k
          THEN [key |-> k, paths |-> Append(d[i].paths, v)]
          ELSE d[i]]
  ELSE Append(d, [key |-> k, paths |-> <<v>>])

\* for file_list in d.values(): for file_path in file_list
RECURSIVE Values(_)
Values(d) ==
  IF d = <<>> THEN <<>> ELSE Head(d).paths \o Values(Tail(d))

\* ------------------------------------------------------------- file system
\* the files os.walk yields, in visit order; a root that is no listable
\* directory yields nothing (os.walk ignores the scandir error)
os_walk ==
  IF rootKind = "dir" THEN [p \in 1..Len(tree) |-> p] ELSE <<>>

\* os.path.getsize: the size in bytes, or OSError when the stat fails
getsize(file_path, fails) ==
  IF fails
  THEN [raised |-> TRUE, value |-> 0]
  ELSE [raised |-> FALSE, value |-> Len(tree[file_path])]

\* except OSError of find_duplicates_by_size
size_except(exc) == exc \in {"OSError", "FileNotFoundError", "PermissionError"}

\* except OSError of hash_file
hash_except(exc) == exc \in {"OSError", "FileNotFoundError", "PermissionError"}

\* ------------------------------------------------------------------ filters
\* bug: >= 1 for > 1
KeepSize_ge1(e) == Len(e.paths) >= 1

KeepSize(e) == Len(e.paths) > 1

\* bug: the size filter is left out
size_filter_none(d) == d

size_filter(d) == SelectSeq(d, KeepSize)

\* bug: >= 1 for > 1
KeepHash_ge1(e) == Len(e.paths) >= 1

KeepHash(e) == Len(e.paths) > 1

hash_filter(d) == SelectSeq(d, KeepHash)

\* ---------------------------------------------------------------- hash_file
None == [none |-> TRUE, hex |-> <<>>]

Str(h) == [none |-> FALSE, hex |-> h]

\* Python truthiness of a value that is None or a str
Truthy(v) == ~v.none /\ v.hex # <<>>

\* the hex rendering of a digest: never the empty string
hexdigest(d) == <<d>>

\* calls of f.read(block_size) a fault-free hash_file makes on the file
NumReads(file_path) ==
  (Len(tree[file_path]) + block_size - 1) \div block_size + 1

\* fault 0: no failure; fault 1: open fails; fault k+1: the k-th read fails
Faults(file_path) == 0..(NumReads(file_path) + 1)

\* the read loop from the nread-th read on; hasher is the bytes fed so far
RECURSIVE read_loop(_, _, _, _, _)
read_loop(data, pos, hasher, nread, fault) ==
  IF fault = nread + 1
  THEN [raised |-> TRUE, hasher |-> hasher]
  ELSE LET buf == SubSeq(data, pos + 1, Min(pos + block_size, Len(data)))
       IN IF buf = <<>>
          THEN [raised |-> FALSE, hasher |-> hasher]
          ELSE read_loop(data, pos + Len(buf), hasher \o buf, nread + 1, fault)

\* bug: the loop reads the file but never calls hasher.update
hash_read_no_update(file_path, fault) ==
  [raised |-> IF fault = 1
              THEN TRUE
              ELSE read_loop(tree[file_path], 0, <<>>, 1, fault).raised,
   hasher |-> <<>>]

\* open and the read loop: whether OSError was raised, and the bytes fed
hash_read(file_path, fault) ==
  IF fault = 1
  THEN [raised |-> TRUE, hasher |-> <<>>]
  ELSE read_loop(tree[file_path], 0, <<>>, 1, fault)

\* bug: the except clause falls through to return hasher.hexdigest(), the
\* digest of the bytes read before the failure
hash_file_partial(file_path, fault, exc, md) ==
  [escaped |-> FALSE,
   value |-> Str(hexdigest(md[hash_read(file_path, fault).hasher]))]

\* bug: a file that yields no bytes is given no digest
hash_file_empty_none(file_path, fault, exc, md) ==
  LET r == hash_read(file_path, fault)
  IN [escaped |-> FALSE,
      value |-> IF r.raised \/ r.hasher = <<>>
                THEN None
                ELSE Str(hexdigest(md[r.hasher]))]

\* hash_file under digest function md: the value returned, or the exception
\* that escapes
hash_file(file_path, fault, exc, md) ==
  LET r == hash_read(file_path, fault)
  IN IF r.raised
     THEN IF hash_except(exc)
          THEN [escaped |-> FALSE, value |-> None]
          ELSE [escaped |-> TRUE, value |-> None]
     ELSE [escaped |-> FALSE, value |-> Str(hexdigest(md[r.hasher]))]

\* md5 is fixed but unknown: the digest of a byte string is chosen when the
\* string is first hashed, equal to an earlier digest (a collision) or new
DigestChoices(data) ==
  IF data \in DOMAIN md5
  THEN {md5[data]}
  ELSE Range(md5) \cup {Cardinality(Range(md5)) + 1}

Extend(md, data, d) ==
  [c \in DOMAIN md \cup {data} |-> IF c = data THEN d ELSE md[c]]

\* ------------------------------------------------- the stages as functions
\* the walk loop of find_duplicates_by_size over the files of a fault-free
\* tree, from the dict built so far
RECURSIVE walk_loop(_, _)
walk_loop(files, d) ==
  IF files = <<>>
  THEN d
  ELSE walk_loop(Tail(files),
                 DictAppend(d, getsize(Head(files), FALSE).value, Head(files)))

find_duplicates_by_size(files) == size_filter(walk_loop(files, EmptyDict))

\* the loops of find_duplicates_by_hash over a fault-free candidate list
RECURSIVE hash_loop(_, _)
hash_loop(files, d) ==
  IF files = <<>>
  THEN d
  ELSE LET file_hash == hash_file(Head(files), 0, "OSError", md5).value
       IN hash_loop(Tail(files),
                    IF Truthy(file_hash)
                    THEN DictAppend(d, file_hash.hex, Head(files))
                    ELSE d)

find_duplicates_by_hash(sd) == hash_filter(hash_loop(Values(sd), EmptyDict))

\* --------------------------------------------------------------------- Init
Trees == UNION {[1..n -> Contents] : n \in 0..MaxFiles}

Init ==
  /\ rootKind \in RootKinds
  /\ tree \in Trees
  /\ rootKind # "dir" => tree = <<>>
  /\ md5 = <<>>
  /\ pc = "walk"
  /\ walk_i = 0
  /\ size_dict = EmptyDict
  /\ hash_i = 0
  /\ hash_dict = EmptyDict
  /\ hashed = <<>>
  /\ stdout = <<>>
  /\ stat_faults = {}
  /\ read_faults = {}
  /\ report = "none"

\* ------------------------------------------------------------------ actions
\* one iteration of the walk loop of find_duplicates_by_size
WalkFile ==
  /\ pc = "walk"
  /\ walk_i < Len(os_walk)
  /\ \E fails \in BOOLEAN, exc \in Raised :
       LET file_path == os_walk[walk_i + 1]
           file_size == getsize(file_path, fails)
       IN /\ stat_faults' = IF fails THEN stat_faults \cup {file_path} ELSE stat_faults
          /\ IF ~file_size.raised
             THEN /\ size_dict' = DictAppend(size_dict, file_size.value, file_path)
                  /\ walk_i' = walk_i + 1
                  /\ UNCHANGED <<pc, stdout>>
             ELSE IF size_except(exc)
             THEN /\ stdout' = Append(stdout, [msg |-> "Error accessing", path |-> file_path])
                  /\ walk_i' = walk_i + 1
                  /\ UNCHANGED <<pc, size_dict>>
             ELSE /\ pc' = "crashed"
                  /\ UNCHANGED <<walk_i, size_dict, stdout>>
  /\ UNCHANGED <<rootKind, tree, md5, hash_i, hash_dict, hashed, read_faults, report>>

\* the filter and return of find_duplicates_by_size
SizeReturn ==
  /\ pc = "walk"
  /\ walk_i = Len(os_walk)
  /\ size_dict' = size_filter(size_dict)
  /\ pc' = "main"
  /\ UNCHANGED <<rootKind, tree, md5, walk_i, hash_i, hash_dict, hashed,
                 stdout, stat_faults, read_faults, report>>

\* __main__: if not size_duplicates
MainNoSize ==
  /\ pc = "main"
  /\ size_dict = EmptyDict
  /\ report' = "No duplicate files found based on size."
  /\ pc' = "done"
  /\ UNCHANGED <<rootKind, tree, md5, walk_i, size_dict, hash_i, hash_dict,
                 hashed, stdout, stat_faults, read_faults>>

\* __main__: else, call find_duplicates_by_hash
MainHash ==
  /\ pc = "main"
  /\ size_dict # EmptyDict
  /\ pc' = "hash"
  /\ UNCHANGED <<rootKind, tree, md5, walk_i, size_dict, hash_i, hash_dict,
                 hashed, stdout, stat_faults, read_faults, report>>

\* one iteration of the loops of find_duplicates_by_hash
HashFile ==
  /\ pc = "hash"
  /\ hash_i < Len(Values(size_dict))
  /\ LET file_path == Values(size_dict)[hash_i + 1]
     IN \E fault \in Faults(file_path), exc \in Raised :
        \E d \in DigestChoices(hash_read(file_path, fault).hasher) :
          LET md == Extend(md5, hash_read(file_path, fault).hasher, d)
              res == hash_file(file_path, fault, exc, md)
              file_hash == res.value
          IN /\ hashed' = Append(hashed, file_path)
             /\ read_faults' = IF fault # 0 THEN read_faults \cup {file_path} ELSE read_faults
             /\ IF res.escaped
                THEN /\ pc' = "crashed"
                     /\ UNCHANGED <<md5, hash_i, hash_dict, stdout>>
                ELSE /\ pc' = pc
                     /\ hash_i' = hash_i + 1
                     /\ md5' = IF file_hash.none THEN md5 ELSE md
                     /\ stdout' = IF file_hash.none
                                  THEN Append(stdout, [msg |-> "Error reading", path |-> file_path])
                                  ELSE stdout
                     /\ hash_dict' = IF Truthy(file_hash)
                                     THEN DictAppend(hash_dict, file_hash.hex, file_path)
                                     ELSE hash_dict
  /\ UNCHANGED <<rootKind, tree, walk_i, size_dict, stat_faults, report>>

\* the filter and return of find_duplicates_by_hash
HashReturn ==
  /\ pc = "hash"
  /\ hash_i = Len(Values(size_dict))
  /\ hash_dict' = hash_filter(hash_dict)
  /\ pc' = "report"
  /\ UNCHANGED <<rootKind, tree, md5, walk_i, size_dict, hash_i, hashed,
                 stdout, stat_faults, read_faults, report>>

\* __main__: if not content_duplicates ... else display_duplicates
Report ==
  /\ pc = "report"
  /\ report' = IF hash_dict = EmptyDict
               THEN "No duplicate files found based on content."
               ELSE "Duplicate files with hash"
  /\ pc' = "done"
  /\ UNCHANGED <<rootKind, tree, md5, walk_i, size_dict, hash_i, hash_dict,
                 hashed, stdout, stat_faults, read_faults>>

Next ==
  \/ WalkFile
  \/ SizeReturn
  \/ MainNoSize
  \/ MainHash
  \/ HashFile
  \/ HashReturn
  \/ Report

Spec == Init /\ [][Next]_vars

\* ------------------------------------------------------------------- claims
Files == 1..Len(tree)

\* the paths that stand in some group of a dict
Grouped(d) == UNION {Range(d[i].paths) : i \in DOMAIN d}

\* find_duplicates_by_size has returned: size_dict is its result
SizeReturned == pc \in {"main", "hash", "report", "done"}

\* the scan's output is final: hash_dict is what find_duplicates_by_hash
\* returned, or still empty when __main__ found no size group
ScanOutput == pc \in {"report", "done"}

\* the size find_duplicates_by_size recorded for a path of a size group
SizeKey(p) ==
  size_dict[CHOOSE i \in DOMAIN size_dict : p \in Range(size_dict[i].paths)].key

UniqueSize(p) == \A q \in Files \ {p} : Len(tree[q]) # Len(tree[p])

UniqueContent(p) == \A q \in Files \ {p} : tree[q] # tree[p]

\* the digest function does not collide on the files of the tree
NoCollision ==
  \A p, q \in Files :
    (/\ tree[p] \in DOMAIN md5
     /\ tree[q] \in DOMAIN md5
     /\ md5[tree[p]] = md5[tree[q]]) => tree[p] = tree[q]

\* the files the walk yields, without the excluded ones
Without(excluded) == SelectSeq(os_walk, LAMBDA p : p \notin excluded)

Logged(msg, p) == \E i \in DOMAIN stdout : stdout[i] = [msg |-> msg, path |-> p]

\* C1: if the digest function does not collide on the files of the tree, any
\* two paths of one digest group have byte-identical content.
C1_DigestSound ==
  NoCollision =>
    \A i \in DOMAIN hash_dict :
      \A p, q \in Range(hash_dict[i].paths) : tree[p] = tree[q]

C1_Witness ==
  /\ pc = "done"
  /\ hash_dict # EmptyDict
  /\ NoCollision
  /\ Cardinality(DOMAIN md5) >= 2

\* C2 (as claimed): no digest group holds two paths whose recorded sizes
\* differ.
C2_SameSizeWithinGroup ==
  \A i \in DOMAIN hash_dict :
    \A p, q \in Range(hash_dict[i].paths) : SizeKey(p) = SizeKey(q)

\* C3 (as claimed): a file whose size or whose content no other file of the
\* tree shares is in no group of the final output.
C3_SingletonEliminated ==
  ScanOutput =>
    \A p \in Files :
      (UniqueSize(p) \/ UniqueContent(p)) => p \notin Grouped(hash_dict)

\* C3 (amended): a file whose size no other file shares is in no group of the
\* final output; a file whose content no other file shares is in no group of
\* the final output if the digest function does not collide on the files of
\* the tree.
C3_SingletonEliminatedNoCollision ==
  ScanOutput =>
    \A p \in Files :
      (UniqueSize(p) \/ (UniqueContent(p) /\ NoCollision))
        => p \notin Grouped(hash_dict)

C3_Witness ==
  /\ pc = "done"
  /\ NoCollision
  /\ hash_dict # EmptyDict
  /\ \E p \in Range(hashed) : UniqueContent(p) /\ p \notin read_faults

\* C4: every group find_duplicates_by_size returns and every group
\* find_duplicates_by_hash returns has at least 2 paths, whatever stats and
\* reads failed.
C4_PostFilter ==
  /\ SizeReturned => \A i \in DOMAIN size_dict : Len(size_dict[i].paths) >= 2
  /\ ScanOutput => \A i \in DOMAIN hash_dict : Len(hash_dict[i].paths) >= 2

C4_Witness ==
  /\ pc = "done"
  /\ stat_faults # {}
  /\ read_faults # {}
  /\ size_dict # EmptyDict
  /\ hash_dict # EmptyDict

\* C5 (as claimed): a root that is no listable directory is reported to the
\* caller of find_duplicates_by_size: an exception reaches the caller, or the
\* value returned differs from the empty mapping an empty directory gives.
C5_InvalidRootReported ==
  (rootKind # "dir" /\ pc # "walk") => (pc = "crashed" \/ size_dict # EmptyDict)

\* C6: a file whose open or read fails gets a diagnostic and is in no digest
\* group, and no such failure escapes find_duplicates_by_hash.
C6_AllOrNothing ==
  /\ pc # "crashed"
  /\ \A p \in read_faults :
       p \notin Grouped(hash_dict) /\ Logged("Error reading", p)

C6_Witness ==
  /\ pc = "done"
  /\ report = "Duplicate files with hash"
  /\ \E p \in read_faults : tree[p] # <<>> /\ p \in Grouped(size_dict)

\* C7 (as claimed): no stat or read failure aborts the scan; the size groups returned are
\* those of the tree without the files whose stat failed, and the final
\* output is that of a scan of the tree without every failed file.
C7_FaultIsolation ==
  /\ pc # "crashed"
  /\ SizeReturned => size_dict = find_duplicates_by_size(Without(stat_faults))
  /\ ScanOutput =>
       hash_dict = find_duplicates_by_hash(
                     find_duplicates_by_size(Without(stat_faults \cup read_faults)))

\* C8: hash_file is called only on paths of a size group of at least 2
\* paths, never on a file of unique size, and not at all when no size group
\* was formed, in which case the output is empty.
C8_HashOnlyCandidates ==
  /\ \A p \in Range(hashed) :
       \E i \in DOMAIN size_dict :
         p \in Range(size_dict[i].paths) /\ Len(size_dict[i].paths) >= 2
  /\ \A p \in Files : UniqueSize(p) => p \notin Range(hashed)
  /\ (SizeReturned /\ size_dict = EmptyDict)
       => (hashed = <<>> /\ hash_dict = EmptyDict)

C8_Witness ==
  /\ pc = "done"
  /\ hashed # <<>>
  /\ \E p \in Files : UniqueSize(p)

\* C9: when every stat and read succeeds, two distinct files of equal
\* content end in one group of the final output, files of size 0 included.
C9_Complete ==
  (pc = "done" /\ stat_faults = {} /\ read_faults = {}) =>
    \A p, q \in Files :
      (p # q /\ tree[p] = tree[q]) =>
        \E i \in DOMAIN hash_dict : {p, q} \subseteq Range(hash_dict[i].paths)

C9_Witness ==
  /\ pc = "done"
  /\ stat_faults = {}
  /\ read_faults = {}
  /\ \E p, q \in Files : p # q /\ tree[p] = <<>> /\ tree[q] = <<>>
  /\ \E p, q \in Files : p # q /\ tree[p] = <<1>> /\ tree[q] = <<1>>

\* C10 (as claimed): in every group of size_dict and of hash_dict the paths
\* stand in walk order, none twice.
C10_WalkOrder ==
  /\ \A i \in DOMAIN size_dict :
       \A a, b \in DOMAIN size_dict[i].paths :
         a < b => size_dict[i].paths[a] < size_dict[i].paths[b]
  /\ \A i \in DOMAIN hash_dict :
       \A a, b \in DOMAIN hash_dict[i].paths :
         a < b => hash_dict[i].paths[a] < hash_dict[i].paths[b]

====
